---- MODULE Spec2Model ----
(***************************************************************************)
(* The customer-service registry of                                        *)
(* internal/domain/customer_service/service.go: the four tables (users,    *)
(* staffs, groups, sessions) and the operations that mutate them under the *)
(* registry's exclusive lock.  Every operation holds cs.mu for its whole   *)
(* body, so each one is one atomic step.                                   *)
(*                                                                         *)
(* Go maps of pointers are modelled as functions from the keys present to  *)
(* records.  CSStaff.Sessions and CSGroup.Members are maps whose values    *)
(* are never read by any code of the repository (only their keys are), so  *)
(* they are modelled as the sets of their keys.  The fields Name and        *)
(* CreateAt are written once and read by no registry operation; they are   *)
(* left out of the records; Conn is the connection of the entry.  A        *)
(* disconnect also sets Status to Offline on the object it removes from    *)
(* its table; no table holds that object afterwards, so the assignment     *)
(* leaves the registry's state as it is.                                   *)
(*                                                                         *)
(* closed is the set of connections on which Close has been called.        *)
(* ConnectUser replaces the table's pointer and leaves the User object it  *)
(* pointed at to the handler that created it: detached maps the connection *)
(* of such an object to the SessionID it keeps.                            *)
(*                                                                         *)
(* Sessions are never removed from the session table, so the table holds   *)
(* every session created so far.                                           *)
(***************************************************************************)
EXTENDS Integers, Sequences, FiniteSets, TLC

VARIABLES users, staffs, groups, sessions, last,
          closed, detached,
          pc, local, sinks, disconnects,
          redis, orders, calls

vars == <<users, staffs, groups, sessions, last,
          closed, detached, pc, local, sinks, disconnects,
          redis, orders, calls>>

\* The state of the message gateway's connection handlers.
gatewayVars == <<pc, local, sinks, disconnects>>

\* The state of the order service: the keys of its Redis, the orders it has
\* saved and its CreateOrder calls.
orderVars == <<redis, orders, calls>>

(* ------------------------------ bounds -------------------------------- *)

\* Largest clock reading (in ticks) the model explores.
MaxTime == 2

\* Largest number of entries of the session table the model explores.
MaxSessions == 1

\* Largest length of one session's message sequence the model explores.
MaxMsgs == 1

\* Largest length of a message sequence explored where one user converses.
MaxChatMsgs == 2

\* Largest number of entries of the session table explored where one user is
\* given several sessions.
MaxUserSessions == 2

\* Largest length of a message sequence explored where one user is given
\* several sessions.
MaxUserMsgs == 0

\* Largest number of CreateOrder calls.
MaxCalls == 3

\* Largest clock reading (in nanoseconds) an order is created at.
MaxOrderTime == 1

\* Largest number of inbound frames the peer of one connection sends.
MaxFrames == 1

\* Largest number of inbound frames a staff connection sends where messages
\* are relayed after a transfer.
MaxRelayFrames == 2

\* Largest length of a message sequence explored under the gateway.
MaxGatewayMsgs == 2

\* Largest clock reading (in ticks) explored under the gateway.
MaxGatewayTime == 0

(* ------------------------------ inputs -------------------------------- *)

\* Ids are opaque strings.  "u1_x" with "s1" and "u1" with "x_s1" are the
\* pairs whose concatenation userID + "_" + staffID coincides.
UserIds == {"u1", "u1_x"}

StaffIds == {"s1", "x_s1"}

GroupIds == {"g1"}

\* The one user of the conversations explored up to MaxChatMsgs messages.
ChatUserIds == {"u1"}

Contents == {"hi"}

\* The nil *websocket.Conn the callers of the registry outside the gateway
\* pass.
NoConn == "nil"

\* The connections the gateway's handlers serve, with the handshake of each:
\* two connections opened under the same user id and one for each staff.
UserConns == {"c1", "c2"}

StaffConns == {"c3", "c4"}

Conns == UserConns \cup StaffConns

IdOf(c) == CASE c = "c1" -> "u1"
             [] c = "c2" -> "u1"
             [] c = "c3" -> "s1"
             [] c = "c4" -> "x_s1"

\* The local variables of a handler between two steps: the number of frames
\* its peer has still to send, the session id it read from its User object,
\* the outbound frames it has still to deliver and the connection it is
\* writing to.
NoLocal(frames) == [left |-> frames, sid |-> "", todo |-> <<>>, conn |-> NoConn]

\* Inbound frames that do not decode, or decode to a type no case handles.
BadFrames == {"undecodable", "unknown type"}

\* Session ids a caller may name: the ones in the table and one that is not.
SessionArgs == DOMAIN sessions \cup {"nonexistent"}

\* Sender ids a caller may name: every party and one id that is nobody's.
SenderArgs == UserIds \cup StaffIds \cup {"nonexistent"}

(* ----------------------------- constants ------------------------------ *)

UserStatusOnline == 1

UserStatusInSession == 2

SessionStatusWaiting == 0

SessionStatusActive == 1

SessionStatusClosed == 2

MessageTypeText == 0

ErrNone == "nil"

ErrUserNotFound == "user not found"

ErrStaffNotFound == "staff not found"

ErrSessionNotFound == "session not found"

ErrGroupNotFound == "group not found"

ErrInvalidOperation == "invalid operation"

(* ------------------------------- time --------------------------------- *)

\* The clock is read in ticks; the layout "20060102150405" keeps whole
\* seconds only, and a second is TicksPerSecond ticks long.
TicksPerSecond == 2

Pad2(n) == IF n < 10 THEN "0" \o ToString(n) ELSE ToString(n)

\* time.Time.Format("20060102150405"): the reading truncated to the second.
FormatTime(t) == "200601021504" \o Pad2(t \div TicksPerSecond)

Max(S) == CHOOSE x \in S : \A y \in S : y <= x

\* The latest clock reading the registry has stored.  Every reading the
\* operations store ends up in the UpdateAt of a session of the table.
LastReading == Max({0} \cup {sessions[id].UpdateAt : id \in DOMAIN sessions})

\* time.Now(): the clock is monotonic, so a reading is not earlier than any
\* reading stored before it.  The readings one call takes are one reading.
Readings == LastReading..MaxTime

(* ------------------------------- maps --------------------------------- *)

\* m[k] = v on a Go map.
Put(m, k, v) == [x \in DOMAIN m \cup {k} |-> IF x = k THEN v ELSE m[x]]

\* delete(m, k) on a Go map.
Del(m, k) == [x \in DOMAIN m \ {k} |-> m[x]]

EmptyMap == [x \in {} |-> 0]

\* The record of the call that has just returned: its name and its error.
Call(op, err) == [op |-> op, err |-> err]

(* ------------------------------- state -------------------------------- *)

Init ==
    /\ users = EmptyMap
    /\ staffs = EmptyMap
    /\ groups = EmptyMap
    /\ sessions = EmptyMap
    /\ last = Call("NewCustomerService", ErrNone)
    /\ closed = {}
    /\ detached = EmptyMap
    /\ pc = EmptyMap
    /\ local = EmptyMap
    /\ sinks = EmptyMap
    /\ disconnects = EmptyMap
    /\ redis = EmptyMap
    /\ orders = <<>>
    /\ calls = EmptyMap

(* ----------------------------- operations ----------------------------- *)
\* An operation that stores a clock reading draws it, t, from Readings where
\* the code calls time.Now().

ConnectUser(userID, conn) ==
    /\ users' = Put(users, userID,
                    [ID |-> userID, Status |-> UserStatusOnline, SessionID |-> "",
                     Conn |-> conn])
    /\ detached' = IF userID \in DOMAIN users /\ users[userID].Conn # NoConn
                   THEN Put(detached, users[userID].Conn, users[userID].SessionID)
                   ELSE detached
    /\ last' = Call("ConnectUser", ErrNone)
    /\ UNCHANGED <<staffs, groups, sessions, closed>>

\* ConnectStaff that keeps the session set of an entry it replaces.
ConnectStaffKeepsSessions(staffID, groupID, conn) ==
    /\ IF groupID \notin DOMAIN groups
       THEN /\ last' = Call("ConnectStaff", ErrGroupNotFound)
            /\ UNCHANGED <<staffs, groups>>
       ELSE /\ staffs' = Put(staffs, staffID,
                             [ID |-> staffID, GroupID |-> groupID,
                              Status |-> UserStatusOnline,
                              Sessions |-> IF staffID \in DOMAIN staffs
                                           THEN staffs[staffID].Sessions ELSE {},
                              Conn |-> conn])
            /\ groups' = [groups EXCEPT ![groupID].Members = @ \cup {staffID}]
            /\ last' = Call("ConnectStaff", ErrNone)
    /\ UNCHANGED <<users, sessions, closed, detached>>

ConnectStaff(staffID, groupID, conn) ==
    /\ IF groupID \notin DOMAIN groups
       THEN /\ last' = Call("ConnectStaff", ErrGroupNotFound)
            /\ UNCHANGED <<staffs, groups>>
       ELSE /\ staffs' = Put(staffs, staffID,
                             [ID |-> staffID, GroupID |-> groupID,
                              Status |-> UserStatusOnline, Sessions |-> {},
                              Conn |-> conn])
            /\ groups' = [groups EXCEPT ![groupID].Members = @ \cup {staffID}]
            /\ last' = Call("ConnectStaff", ErrNone)
    /\ UNCHANGED <<users, sessions, closed, detached>>

CreateGroup(groupID) ==
    /\ groups' = Put(groups, groupID, [ID |-> groupID, Members |-> {}])
    /\ last' = Call("CreateGroup", ErrNone)
    /\ UNCHANGED <<users, staffs, sessions, closed, detached>>

\* The id CreateSession gives a session created at reading t.
SessionIDOf(userID, staffID, t) == userID \o "_" \o staffID \o "_" \o FormatTime(t)

\* CreateSession that looks the staff up before the user.
CreateSessionChecksStaffFirst(userID, staffID) ==
    /\ UNCHANGED <<closed, detached>>
    /\ IF staffID \notin DOMAIN staffs
       THEN /\ last' = Call("CreateSession", ErrStaffNotFound)
            /\ UNCHANGED <<users, staffs, groups, sessions>>
       ELSE IF userID \notin DOMAIN users
       THEN /\ last' = Call("CreateSession", ErrUserNotFound)
            /\ UNCHANGED <<users, staffs, groups, sessions>>
       ELSE \E t \in Readings :
            LET id == SessionIDOf(userID, staffID, t)
                session == [ID |-> id, UserID |-> userID, StaffID |-> staffID,
                            Status |-> SessionStatusActive, UpdateAt |-> t,
                            Messages |-> <<>>]
            IN  /\ sessions' = Put(sessions, id, session)
                /\ staffs' = [staffs EXCEPT ![staffID].Sessions = @ \cup {id}]
                /\ users' = [users EXCEPT ![userID].SessionID = id,
                                          ![userID].Status = UserStatusInSession]
                /\ last' = Call("CreateSession", ErrNone)
                /\ UNCHANGED groups

CreateSession(userID, staffID) ==
    /\ UNCHANGED <<closed, detached>>
    /\ IF userID \notin DOMAIN users
       THEN /\ last' = Call("CreateSession", ErrUserNotFound)
            /\ UNCHANGED <<users, staffs, groups, sessions>>
       ELSE IF staffID \notin DOMAIN staffs
       THEN /\ last' = Call("CreateSession", ErrStaffNotFound)
            /\ UNCHANGED <<users, staffs, groups, sessions>>
       ELSE \E t \in Readings :
            LET id == SessionIDOf(userID, staffID, t)
                session == [ID |-> id, UserID |-> userID, StaffID |-> staffID,
                            Status |-> SessionStatusActive, UpdateAt |-> t,
                            Messages |-> <<>>]
            IN  /\ sessions' = Put(sessions, id, session)
                /\ staffs' = [staffs EXCEPT ![staffID].Sessions = @ \cup {id}]
                /\ users' = [users EXCEPT ![userID].SessionID = id,
                                          ![userID].Status = UserStatusInSession]
                /\ last' = Call("CreateSession", ErrNone)
                /\ UNCHANGED groups

\* TransferSession without the removal from the outgoing staff's set.
TransferSessionKeepsOld(sessionID, newStaffID) ==
    /\ UNCHANGED <<closed, detached>>
    /\ IF sessionID \notin DOMAIN sessions
       THEN /\ last' = Call("TransferSession", ErrSessionNotFound)
            /\ UNCHANGED <<users, staffs, groups, sessions>>
       ELSE IF newStaffID \notin DOMAIN staffs \/ sessions[sessionID].StaffID \notin DOMAIN staffs
       THEN /\ last' = Call("TransferSession", ErrStaffNotFound)
            /\ UNCHANGED <<users, staffs, groups, sessions>>
       ELSE \E t \in Readings :
            /\ sessions' = [sessions EXCEPT ![sessionID].StaffID = newStaffID,
                                            ![sessionID].UpdateAt = t]
            /\ staffs' = [staffs EXCEPT ![newStaffID].Sessions = @ \cup {sessionID}]
            /\ last' = Call("TransferSession", ErrNone)
            /\ UNCHANGED <<users, groups>>

\* TransferSession that goes on when the outgoing staff is not connected.
TransferSessionIgnoresOutgoing(sessionID, newStaffID) ==
    /\ UNCHANGED <<closed, detached>>
    /\ IF sessionID \notin DOMAIN sessions
       THEN /\ last' = Call("TransferSession", ErrSessionNotFound)
            /\ UNCHANGED <<users, staffs, groups, sessions>>
       ELSE IF newStaffID \notin DOMAIN staffs
       THEN /\ last' = Call("TransferSession", ErrStaffNotFound)
            /\ UNCHANGED <<users, staffs, groups, sessions>>
       ELSE \E t \in Readings :
            LET oldStaffID == sessions[sessionID].StaffID
                removed == IF oldStaffID \in DOMAIN staffs
                           THEN [staffs EXCEPT ![oldStaffID].Sessions = @ \ {sessionID}]
                           ELSE staffs
            IN  /\ sessions' = [sessions EXCEPT ![sessionID].StaffID = newStaffID,
                                                ![sessionID].UpdateAt = t]
                /\ staffs' = [removed EXCEPT ![newStaffID].Sessions = @ \cup {sessionID}]
                /\ last' = Call("TransferSession", ErrNone)
                /\ UNCHANGED <<users, groups>>

TransferSession(sessionID, newStaffID) ==
    /\ UNCHANGED <<closed, detached>>
    /\ IF sessionID \notin DOMAIN sessions
       THEN /\ last' = Call("TransferSession", ErrSessionNotFound)
            /\ UNCHANGED <<users, staffs, groups, sessions>>
       ELSE IF newStaffID \notin DOMAIN staffs
       THEN /\ last' = Call("TransferSession", ErrStaffNotFound)
            /\ UNCHANGED <<users, staffs, groups, sessions>>
       ELSE IF sessions[sessionID].StaffID \notin DOMAIN staffs
       THEN /\ last' = Call("TransferSession", ErrStaffNotFound)
            /\ UNCHANGED <<users, staffs, groups, sessions>>
       ELSE \E t \in Readings :
            LET oldStaffID == sessions[sessionID].StaffID
                removed == [staffs EXCEPT ![oldStaffID].Sessions = @ \ {sessionID}]
            IN  /\ sessions' = [sessions EXCEPT ![sessionID].StaffID = newStaffID,
                                                ![sessionID].UpdateAt = t]
                /\ staffs' = [removed EXCEPT ![newStaffID].Sessions = @ \cup {sessionID}]
                /\ last' = Call("TransferSession", ErrNone)
                /\ UNCHANGED <<users, groups>>

\* SendMessage that appends the message before it checks the sender.
SendMessageAppendsFirst(sessionID, fromID, content, msgType) ==
    /\ UNCHANGED <<closed, detached>>
    /\ IF sessionID \notin DOMAIN sessions
       THEN /\ last' = Call("SendMessage", ErrSessionNotFound)
            /\ UNCHANGED <<users, staffs, groups, sessions>>
       ELSE \E t \in Readings :
            LET session == sessions[sessionID]
                msg == [ID |-> sessionID \o "_" \o FormatTime(t),
                        SessionID |-> sessionID, FromID |-> fromID,
                        ToID |-> IF fromID = session.UserID THEN session.StaffID
                                 ELSE session.UserID,
                        Content |-> content, Type |-> msgType]
            IN  /\ sessions' = [sessions EXCEPT ![sessionID].Messages = Append(@, msg),
                                                ![sessionID].UpdateAt = t]
                /\ last' = Call("SendMessage",
                                IF fromID # session.UserID /\ fromID # session.StaffID
                                THEN ErrInvalidOperation ELSE ErrNone)
                /\ UNCHANGED <<users, staffs, groups>>

\* SendMessage that addresses every message to the session's staff.
SendMessageToStaffAlways(sessionID, fromID, content, msgType) ==
    /\ UNCHANGED <<closed, detached>>
    /\ IF sessionID \notin DOMAIN sessions
       THEN /\ last' = Call("SendMessage", ErrSessionNotFound)
            /\ UNCHANGED <<users, staffs, groups, sessions>>
       ELSE LET session == sessions[sessionID]
            IN  IF fromID # session.UserID /\ fromID # session.StaffID
                THEN /\ last' = Call("SendMessage", ErrInvalidOperation)
                     /\ UNCHANGED <<users, staffs, groups, sessions>>
                ELSE \E t \in Readings :
                     LET msg == [ID |-> sessionID \o "_" \o FormatTime(t),
                                 SessionID |-> sessionID, FromID |-> fromID,
                                 ToID |-> session.StaffID,
                                 Content |-> content, Type |-> msgType]
                     IN  /\ sessions' = [sessions EXCEPT
                                ![sessionID].Messages = Append(@, msg),
                                ![sessionID].UpdateAt = t]
                         /\ last' = Call("SendMessage", ErrNone)
                         /\ UNCHANGED <<users, staffs, groups>>

\* SendMessage that stores its message over the last one of the sequence, as
\* an append to a copy of the sequence read before the previous append would.
SendMessageOverwritesLast(sessionID, fromID, content, msgType) ==
    /\ UNCHANGED <<closed, detached>>
    /\ IF sessionID \notin DOMAIN sessions
       THEN /\ last' = Call("SendMessage", ErrSessionNotFound)
            /\ UNCHANGED <<users, staffs, groups, sessions>>
       ELSE LET session == sessions[sessionID]
            IN  IF fromID # session.UserID /\ fromID # session.StaffID
                THEN /\ last' = Call("SendMessage", ErrInvalidOperation)
                     /\ UNCHANGED <<users, staffs, groups, sessions>>
                ELSE \E t \in Readings :
                     LET msg == [ID |-> sessionID \o "_" \o FormatTime(t),
                                 SessionID |-> sessionID, FromID |-> fromID,
                                 ToID |-> IF fromID = session.UserID
                                          THEN session.StaffID ELSE session.UserID,
                                 Content |-> content, Type |-> msgType]
                     IN  /\ sessions' = [sessions EXCEPT
                                ![sessionID].Messages =
                                    Append(SubSeq(@, 1, Len(@) - 1), msg),
                                ![sessionID].UpdateAt = t]
                         /\ last' = Call("SendMessage", ErrNone)
                         /\ UNCHANGED <<users, staffs, groups>>

SendMessage(sessionID, fromID, content, msgType) ==
    /\ UNCHANGED <<closed, detached>>
    /\ IF sessionID \notin DOMAIN sessions
       THEN /\ last' = Call("SendMessage", ErrSessionNotFound)
            /\ UNCHANGED <<users, staffs, groups, sessions>>
       ELSE LET session == sessions[sessionID]
            IN  IF fromID # session.UserID /\ fromID # session.StaffID
                THEN /\ last' = Call("SendMessage", ErrInvalidOperation)
                     /\ UNCHANGED <<users, staffs, groups, sessions>>
                ELSE \E t \in Readings :
                     LET msg == [ID |-> sessionID \o "_" \o FormatTime(t),
                                 SessionID |-> sessionID, FromID |-> fromID,
                                 ToID |-> IF fromID = session.UserID
                                          THEN session.StaffID ELSE session.UserID,
                                 Content |-> content, Type |-> msgType]
                     IN  /\ sessions' = [sessions EXCEPT
                                ![sessionID].Messages = Append(@, msg),
                                ![sessionID].UpdateAt = t]
                         /\ last' = Call("SendMessage", ErrNone)
                         /\ UNCHANGED <<users, staffs, groups>>

\* DisconnectUser that also closes the session the user points at.
DisconnectUserClosesSession(userID) ==
    /\ last' = Call("DisconnectUser", ErrNone)
    /\ IF userID \in DOMAIN users
       THEN /\ closed' = closed \cup ({users[userID].Conn} \ {NoConn})
            /\ users' = Del(users, userID)
            /\ sessions' = [id \in DOMAIN sessions |->
                    IF id = users[userID].SessionID
                    THEN [sessions[id] EXCEPT !.Status = SessionStatusClosed]
                    ELSE sessions[id]]
       ELSE UNCHANGED <<users, closed, sessions>>
    /\ UNCHANGED <<staffs, groups, detached>>

DisconnectUser(userID) ==
    /\ last' = Call("DisconnectUser", ErrNone)
    /\ IF userID \in DOMAIN users
       THEN /\ closed' = closed \cup ({users[userID].Conn} \ {NoConn})
            /\ users' = Del(users, userID)
       ELSE UNCHANGED <<users, closed>>
    /\ UNCHANGED <<staffs, groups, sessions, detached>>

\* DisconnectStaff that returns an error for an id that is not connected.
DisconnectStaffReportsUnknown(staffID) ==
    /\ IF staffID \in DOMAIN staffs
       THEN LET staff == staffs[staffID]
                closing == staff.Sessions \cap DOMAIN sessions
            IN  /\ last' = Call("DisconnectStaff", ErrNone)
                /\ closed' = closed \cup ({staff.Conn} \ {NoConn})
                /\ groups' = IF staff.GroupID \in DOMAIN groups
                             THEN [groups EXCEPT ![staff.GroupID].Members = @ \ {staffID}]
                             ELSE groups
                /\ IF closing = {}
                   THEN UNCHANGED sessions
                   ELSE \E t \in Readings :
                        sessions' = [id \in DOMAIN sessions |->
                            IF id \in closing
                            THEN [sessions[id] EXCEPT !.Status = SessionStatusClosed,
                                                      !.UpdateAt = t]
                            ELSE sessions[id]]
                /\ staffs' = Del(staffs, staffID)
       ELSE /\ last' = Call("DisconnectStaff", ErrStaffNotFound)
            /\ UNCHANGED <<staffs, groups, sessions, closed>>
    /\ UNCHANGED <<users, detached>>

\* DisconnectStaff without the loop that closes the staff's sessions.
DisconnectStaffLeavesOpen(staffID) ==
    /\ last' = Call("DisconnectStaff", ErrNone)
    /\ IF staffID \in DOMAIN staffs
       THEN /\ closed' = closed \cup ({staffs[staffID].Conn} \ {NoConn})
            /\ groups' = [groups EXCEPT ![staffs[staffID].GroupID].Members = @ \ {staffID}]
            /\ staffs' = Del(staffs, staffID)
            /\ UNCHANGED sessions
       ELSE UNCHANGED <<staffs, groups, sessions, closed>>
    /\ UNCHANGED <<users, detached>>

DisconnectStaff(staffID) ==
    /\ last' = Call("DisconnectStaff", ErrNone)
    /\ IF staffID \in DOMAIN staffs
       THEN LET staff == staffs[staffID]
                closing == staff.Sessions \cap DOMAIN sessions
            IN  /\ closed' = closed \cup ({staff.Conn} \ {NoConn})
                /\ groups' = IF staff.GroupID \in DOMAIN groups
                             THEN [groups EXCEPT ![staff.GroupID].Members = @ \ {staffID}]
                             ELSE groups
                /\ IF closing = {}
                   THEN UNCHANGED sessions
                   ELSE \E t \in Readings :
                        sessions' = [id \in DOMAIN sessions |->
                            IF id \in closing
                            THEN [sessions[id] EXCEPT !.Status = SessionStatusClosed,
                                                      !.UpdateAt = t]
                            ELSE sessions[id]]
                /\ staffs' = Del(staffs, staffID)
       ELSE UNCHANGED <<staffs, groups, sessions, closed>>
    /\ UNCHANGED <<users, detached>>

\* The calls the model explores are those that leave at most maxSessions
\* sessions in the table and at most maxMsgs messages in each of them.
Explored(maxSessions, maxMsgs) ==
    /\ Cardinality(DOMAIN sessions') <= maxSessions
    /\ \A id \in DOMAIN sessions' : Len(sessions'[id].Messages) <= maxMsgs

Next ==
    \/ \E u \in UserIds : ConnectUser(u, NoConn) /\ UNCHANGED <<gatewayVars, orderVars>>
    \/ \E s \in StaffIds, g \in GroupIds : ConnectStaff(s, g, NoConn) /\ UNCHANGED <<gatewayVars, orderVars>>
    \/ \E g \in GroupIds : CreateGroup(g) /\ UNCHANGED <<gatewayVars, orderVars>>
    \/ \E u \in UserIds, s \in StaffIds :
            CreateSession(u, s) /\ Explored(MaxSessions, MaxMsgs) /\ UNCHANGED <<gatewayVars, orderVars>>
    \/ \E sid \in SessionArgs, s \in StaffIds : TransferSession(sid, s) /\ UNCHANGED <<gatewayVars, orderVars>>
    \/ \E sid \in SessionArgs, f \in SenderArgs, c \in Contents :
            SendMessage(sid, f, c, MessageTypeText) /\ Explored(MaxSessions, MaxMsgs) /\ UNCHANGED <<gatewayVars, orderVars>>
    \/ \E u \in UserIds : DisconnectUser(u) /\ UNCHANGED <<gatewayVars, orderVars>>
    \/ \E s \in StaffIds : DisconnectStaff(s) /\ UNCHANGED <<gatewayVars, orderVars>>

Spec == Init /\ [][Next]_vars

\* The registry with one user, explored to longer conversations.
NextChat ==
    \/ \E u \in ChatUserIds : ConnectUser(u, NoConn) /\ UNCHANGED <<gatewayVars, orderVars>>
    \/ \E s \in StaffIds, g \in GroupIds : ConnectStaff(s, g, NoConn) /\ UNCHANGED <<gatewayVars, orderVars>>
    \/ \E g \in GroupIds : CreateGroup(g) /\ UNCHANGED <<gatewayVars, orderVars>>
    \/ \E u \in ChatUserIds, s \in StaffIds :
            CreateSession(u, s) /\ Explored(MaxSessions, MaxChatMsgs) /\ UNCHANGED <<gatewayVars, orderVars>>
    \/ \E sid \in SessionArgs, s \in StaffIds : TransferSession(sid, s) /\ UNCHANGED <<gatewayVars, orderVars>>
    \/ \E sid \in SessionArgs, f \in SenderArgs, c \in Contents :
            SendMessage(sid, f, c, MessageTypeText) /\ Explored(MaxSessions, MaxChatMsgs) /\ UNCHANGED <<gatewayVars, orderVars>>
    \/ \E u \in ChatUserIds : DisconnectUser(u) /\ UNCHANGED <<gatewayVars, orderVars>>
    \/ \E s \in StaffIds : DisconnectStaff(s) /\ UNCHANGED <<gatewayVars, orderVars>>

SpecChat == Init /\ [][NextChat]_vars

\* The registry with one user, explored to several sessions of that user.
NextSessions ==
    \/ \E u \in ChatUserIds : ConnectUser(u, NoConn) /\ UNCHANGED <<gatewayVars, orderVars>>
    \/ \E s \in StaffIds, g \in GroupIds : ConnectStaff(s, g, NoConn) /\ UNCHANGED <<gatewayVars, orderVars>>
    \/ \E g \in GroupIds : CreateGroup(g) /\ UNCHANGED <<gatewayVars, orderVars>>
    \/ \E u \in ChatUserIds, s \in StaffIds :
            CreateSession(u, s) /\ Explored(MaxUserSessions, MaxUserMsgs) /\ UNCHANGED <<gatewayVars, orderVars>>
    \/ \E sid \in SessionArgs, s \in StaffIds : TransferSession(sid, s) /\ UNCHANGED <<gatewayVars, orderVars>>
    \/ \E sid \in SessionArgs, f \in SenderArgs, c \in Contents :
            SendMessage(sid, f, c, MessageTypeText) /\ Explored(MaxUserSessions, MaxUserMsgs) /\ UNCHANGED <<gatewayVars, orderVars>>
    \/ \E u \in ChatUserIds : DisconnectUser(u) /\ UNCHANGED <<gatewayVars, orderVars>>
    \/ \E s \in StaffIds : DisconnectStaff(s) /\ UNCHANGED <<gatewayVars, orderVars>>

SpecSessions == Init /\ [][NextSessions]_vars

(* ------------------------------ gateway ------------------------------- *)
(* MessageGateway runs one handler per connection.  A handler holds no     *)
(* lock of its own: each call of the registry is one step, and so is each  *)
(* lookup followed by the start of a WriteMessage, and the return of that  *)
(* WriteMessage.  The fields of User and Session objects a handler reads   *)
(* outside the registry's lock (user.SessionID, session.StaffID) are read  *)
(* at the step that uses them, so a read that races with a write yields    *)
(* the value before or after it.  A Session pointer is followed through    *)
(* the session table: the gateway is explored where no session id is       *)
(* stored twice.                                                           *)

registryVars == <<users, staffs, groups, sessions, last, closed, detached>>

\* user.SessionID read through the pointer ConnectUser returned to the
\* handler of connection c.
UserObjectSessionID(c) ==
    IF IdOf(c) \in DOMAIN users /\ users[IdOf(c)].Conn = c
    THEN users[IdOf(c)].SessionID
    ELSE IF c \in DOMAIN detached THEN detached[c] ELSE ""

\* The outbound frames.
MessageFrame(message) == [type |-> "message", payload |-> message]

SessionCreatedFrame(session) ==
    [type |-> "session_created",
     payload |-> [ID |-> session.ID, UserID |-> session.UserID,
                  StaffID |-> session.StaffID]]

SessionTransferredFrame(sessionID, oldStaffID, newStaffID) ==
    [type |-> "session_transferred",
     payload |-> [session_id |-> sessionID, old_staff_id |-> oldStaffID,
                  new_staff_id |-> newStaffID]]

\* The lookups that precede a write: GetUser(id), GetStaff(id),
\* GetUser(session.UserID) and GetStaff(session.StaffID).
ToUser(id) == [kind |-> "user", id |-> id]

ToStaff(id) == [kind |-> "staff", id |-> id]

ToUserOf(sessionID) == [kind |-> "user of", id |-> sessionID]

ToStaffOf(sessionID) == [kind |-> "staff of", id |-> sessionID]

GetUserConn(id) == IF id \in DOMAIN users THEN users[id].Conn ELSE NoConn

GetStaffConn(id) == IF id \in DOMAIN staffs THEN staffs[id].Conn ELSE NoConn

\* The connection a lookup yields now, NoConn when it finds nobody.
Resolve(to) ==
    CASE to.kind = "user" -> GetUserConn(to.id)
      [] to.kind = "staff" -> GetStaffConn(to.id)
      [] to.kind = "user of" -> GetUserConn(sessions[to.id].UserID)
      [] to.kind = "staff of" -> GetStaffConn(sessions[to.id].StaffID)

\* The writes each forwarding or notifying function makes, in its order.
forwardMessageToStaff(message) ==
    <<[to |-> ToStaff(message.ToID), frame |-> MessageFrame(message)]>>

forwardMessageToUser(message) ==
    <<[to |-> ToUser(message.ToID), frame |-> MessageFrame(message)]>>

\* notifySessionCreated without the write to the user.
notifySessionCreatedStaffOnly(session) ==
    <<[to |-> ToStaffOf(session.ID), frame |-> SessionCreatedFrame(session)]>>

notifySessionCreated(session) ==
    <<[to |-> ToUserOf(session.ID), frame |-> SessionCreatedFrame(session)],
      [to |-> ToStaffOf(session.ID), frame |-> SessionCreatedFrame(session)]>>

notifySessionTransferred(sessionID, oldStaffID, newStaffID) ==
    LET frame == SessionTransferredFrame(sessionID, oldStaffID, newStaffID)
    IN  <<[to |-> ToUserOf(sessionID), frame |-> frame],
          [to |-> ToStaff(oldStaffID), frame |-> frame],
          [to |-> ToStaff(newStaffID), frame |-> frame]>>

\* The registry calls explored under the gateway.
GatewayExplored ==
    /\ Explored(MaxSessions, MaxGatewayMsgs)
    /\ \A id \in DOMAIN sessions' : sessions'[id].UpdateAt <= MaxGatewayTime
    /\ \A id \in DOMAIN sessions : sessions'[id].ID = sessions[id].ID
                                   /\ sessions'[id].UserID = sessions[id].UserID

\* The handler of connection c is at position p.
At(c, p) == c \in DOMAIN pc /\ pc[c] = p

\* The handler of c goes on with the writes of todo, or back to its read.
Continue(c, todo) ==
    /\ pc' = [pc EXCEPT ![c] = IF todo = <<>> THEN "read" ELSE "out"]
    /\ local' = [local EXCEPT ![c].left = IF pc[c] = "read" THEN @ - 1 ELSE @,
                              ![c].sid = "", ![c].todo = todo, ![c].conn = NoConn]

\* conn.ReadMessage returns a frame: the connection is open and its peer has
\* one to send.
CanRead(c) == At(c, "read") /\ c \notin closed /\ local[c].left > 0

\* The handler of connection c starts, at position p.
Start(c, p, frames) ==
    /\ c \notin DOMAIN pc
    /\ pc' = Put(pc, c, p)
    /\ local' = Put(local, c, NoLocal(frames))
    /\ sinks' = Put(sinks, c, <<>>)
    /\ disconnects' = Put(disconnects, c, 0)

\* gateway.service.CreateGroup, called once before the connections.
SetupCreateGroup(groupID) ==
    /\ groupID \notin DOMAIN groups
    /\ CreateGroup(groupID)
    /\ UNCHANGED gatewayVars

\* HandleUserConnection up to its loop.
HandleUserConnection(c, frames) ==
    /\ ConnectUser(IdOf(c), c)
    /\ Start(c, "read", frames)

\* HandleStaffConnection up to its loop, or to its return when the group is
\* unknown; the connection it closes then is in no table.
HandleStaffConnection(c, groupID, frames) ==
    /\ ConnectStaff(IdOf(c), groupID, c)
    /\ Start(c, IF last'.err = ErrNone THEN "read" ELSE "refused", frames)

\* ReadFails that calls the Disconnect itself, ahead of the deferred call.
ReadFailsAndDisconnects(c) ==
    /\ At(c, "read")
    /\ IF c \in UserConns THEN DisconnectUser(IdOf(c)) ELSE DisconnectStaff(IdOf(c))
    /\ pc' = [pc EXCEPT ![c] = "ended"]
    /\ disconnects' = [disconnects EXCEPT ![c] = @ + 1]
    /\ UNCHANGED <<local, sinks>>

\* conn.ReadMessage returns an error: the loop ends.
ReadFails(c) ==
    /\ At(c, "read")
    /\ pc' = [pc EXCEPT ![c] = "ended"]
    /\ UNCHANGED <<registryVars, local, sinks, disconnects>>

\* A frame that does not decode or has a type no case handles: continue.
ReadBadFrame(c, frame) ==
    /\ CanRead(c)
    /\ Continue(c, <<>>)
    /\ UNCHANGED <<registryVars, sinks, disconnects>>

\* A user's "message" frame, up to the read of user.SessionID.
UserReadMessage(c) ==
    /\ CanRead(c)
    /\ IF UserObjectSessionID(c) # ""
       THEN /\ pc' = [pc EXCEPT ![c] = "send"]
            /\ local' = [local EXCEPT ![c].left = @ - 1,
                                      ![c].sid = UserObjectSessionID(c)]
       ELSE Continue(c, <<>>)
    /\ UNCHANGED <<registryVars, sinks, disconnects>>

\* The SendMessage call of a user's "message" frame.
UserSendMessage(c, content) ==
    /\ At(c, "send")
    /\ SendMessage(local[c].sid, IdOf(c), content, MessageTypeText)
    /\ GatewayExplored
    /\ IF last'.err = ErrNone
       THEN LET m == sessions'[local[c].sid].Messages
            IN  Continue(c, forwardMessageToStaff(m[Len(m)]))
       ELSE Continue(c, <<>>)
    /\ UNCHANGED <<sinks, disconnects>>

\* A staff's "connect_user" frame.
StaffConnectUser(c, userID) ==
    /\ CanRead(c)
    /\ CreateSession(userID, IdOf(c))
    /\ GatewayExplored
    /\ IF last'.err = ErrNone
       THEN /\ users'[userID].SessionID \notin DOMAIN sessions
            /\ Continue(c, notifySessionCreated(sessions'[users'[userID].SessionID]))
       ELSE Continue(c, <<>>)
    /\ UNCHANGED <<sinks, disconnects>>

\* StaffTransferSession that notifies whatever TransferSession returned.
StaffTransferSessionNotifiesAlways(c, sessionID, newStaffID) ==
    /\ CanRead(c)
    /\ TransferSession(sessionID, newStaffID)
    /\ GatewayExplored
    /\ Continue(c, notifySessionTransferred(sessionID, IdOf(c), newStaffID))
    /\ UNCHANGED <<sinks, disconnects>>

\* A staff's "transfer_session" frame.
StaffTransferSession(c, sessionID, newStaffID) ==
    /\ CanRead(c)
    /\ TransferSession(sessionID, newStaffID)
    /\ GatewayExplored
    /\ IF last'.err = ErrNone
       THEN Continue(c, notifySessionTransferred(sessionID, IdOf(c), newStaffID))
       ELSE Continue(c, <<>>)
    /\ UNCHANGED <<sinks, disconnects>>

\* A staff's "message" frame.
StaffMessage(c, sessionID, content) ==
    /\ CanRead(c)
    /\ SendMessage(sessionID, IdOf(c), content, MessageTypeText)
    /\ GatewayExplored
    /\ IF last'.err = ErrNone
       THEN LET m == sessions'[sessionID].Messages
            IN  Continue(c, forwardMessageToUser(m[Len(m)]))
       ELSE Continue(c, <<>>)
    /\ UNCHANGED <<sinks, disconnects>>

\* The lookup of the next write's recipient and the start of the write; the
\* write is skipped when nobody is found and fails on a closed connection.
StartWrite(c) ==
    /\ At(c, "out")
    /\ LET conn == Resolve(Head(local[c].todo).to)
       IN  IF conn = NoConn \/ conn \in closed
           THEN Continue(c, Tail(local[c].todo))
           ELSE /\ pc' = [pc EXCEPT ![c] = "writing"]
                /\ local' = [local EXCEPT ![c].conn = conn]
    /\ UNCHANGED <<registryVars, sinks, disconnects>>

\* Conn.WriteMessage returns: the frame is delivered unless the connection
\* was closed meanwhile.
WriteMessage(c) ==
    /\ At(c, "writing")
    /\ sinks' = IF local[c].conn \in closed
                THEN sinks
                ELSE [sinks EXCEPT ![local[c].conn] =
                          Append(@, Head(local[c].todo).frame)]
    /\ Continue(c, Tail(local[c].todo))
    /\ UNCHANGED <<registryVars, disconnects>>

\* defer g.service.DisconnectUser(userID)
DeferDisconnectUser(c) ==
    /\ At(c, "ended")
    /\ DisconnectUser(IdOf(c))
    /\ pc' = [pc EXCEPT ![c] = "done"]
    /\ disconnects' = [disconnects EXCEPT ![c] = @ + 1]
    /\ UNCHANGED <<local, sinks>>

\* defer g.service.DisconnectStaff(staffID)
DeferDisconnectStaff(c) ==
    /\ At(c, "ended")
    /\ DisconnectStaff(IdOf(c))
    /\ GatewayExplored
    /\ pc' = [pc EXCEPT ![c] = "done"]
    /\ disconnects' = [disconnects EXCEPT ![c] = @ + 1]
    /\ UNCHANGED <<local, sinks>>

\* The user ids a connect_user frame may name.
UserArgs == {IdOf(c) : c \in UserConns} \cup {"nonexistent"}

\* The group ids a staff handshake may name.
GroupArgs == GroupIds \cup {"nonexistent"}

\* The steps of the handlers of the connections named, each peer sending up
\* to frames frames.
GatewayStep(userConns, staffConns, frames) ==
    \/ \E g \in GroupIds : SetupCreateGroup(g) /\ UNCHANGED orderVars
    \/ \E c \in userConns : HandleUserConnection(c, frames) /\ UNCHANGED orderVars
    \/ \E c \in staffConns, g \in GroupArgs : HandleStaffConnection(c, g, frames) /\ UNCHANGED orderVars
    \/ \E c \in userConns \cup staffConns : ReadFails(c) /\ UNCHANGED orderVars
    \/ \E c \in userConns \cup staffConns, frame \in BadFrames : ReadBadFrame(c, frame) /\ UNCHANGED orderVars
    \/ \E c \in userConns : UserReadMessage(c) /\ UNCHANGED orderVars
    \/ \E c \in userConns : UserSendMessage(c, c) /\ UNCHANGED orderVars
    \/ \E c \in staffConns, u \in UserArgs : StaffConnectUser(c, u) /\ UNCHANGED orderVars
    \/ \E c \in staffConns, sid \in SessionArgs, s \in StaffIds :
            StaffTransferSession(c, sid, s) /\ UNCHANGED orderVars
    \/ \E c \in staffConns, sid \in SessionArgs : StaffMessage(c, sid, c) /\ UNCHANGED orderVars
    \/ \E c \in userConns \cup staffConns : StartWrite(c) /\ UNCHANGED orderVars
    \/ \E c \in userConns \cup staffConns : WriteMessage(c) /\ UNCHANGED orderVars
    \/ \E c \in userConns : DeferDisconnectUser(c) /\ UNCHANGED orderVars
    \/ \E c \in staffConns : DeferDisconnectStaff(c) /\ UNCHANGED orderVars

\* One user connection and the connections of two staffs.
NextGateway == GatewayStep({"c1"}, StaffConns, MaxFrames)

SpecGateway == Init /\ [][NextGateway]_vars

\* A handler whose loop has ended goes on to its deferred call.
LiveGateway ==
    /\ SpecGateway
    /\ \A c \in Conns : WF_vars(DeferDisconnectUser(c) /\ UNCHANGED orderVars)
    /\ \A c \in Conns : WF_vars(DeferDisconnectStaff(c) /\ UNCHANGED orderVars)

\* Two connections opened under the same user id and the connection of one
\* staff.
NextReconnect == GatewayStep(UserConns, {"c3"}, MaxFrames)

SpecReconnect == Init /\ [][NextReconnect]_vars

\* One user and two staffs whose connections stay open: a session is
\* created, transferred and written to by both staffs.
NextRelay ==
    \/ \E g \in GroupIds : SetupCreateGroup(g) /\ UNCHANGED orderVars
    \/ HandleUserConnection("c1", 0) /\ UNCHANGED orderVars
    \/ \E c \in StaffConns, g \in GroupIds : HandleStaffConnection(c, g, MaxRelayFrames) /\ UNCHANGED orderVars
    \/ \E c \in StaffConns : StaffConnectUser(c, IdOf("c1")) /\ UNCHANGED orderVars
    \/ \E c \in StaffConns, sid \in DOMAIN sessions, s \in StaffIds :
            StaffTransferSession(c, sid, s) /\ UNCHANGED orderVars
    \/ \E c \in StaffConns, sid \in DOMAIN sessions : StaffMessage(c, sid, c) /\ UNCHANGED orderVars
    \/ \E c \in StaffConns : StartWrite(c) /\ UNCHANGED orderVars
    \/ \E c \in StaffConns : WriteMessage(c) /\ UNCHANGED orderVars

SpecRelay == Init /\ [][NextRelay]_vars

(* --------------------------- order service --------------------------- *)
(* OrderService.CreateOrder of internal/infra/websocket/w2_test.go over    *)
(* its MockRedis.  Each MockRedis command is atomic (SetNX under m.mu, the *)
(* others one sync.Map operation); a call holds no lock between two        *)
(* commands, so calls interleave there.  Keys expire after 24 hours, which *)
(* is beyond the calls explored, and saveOrder returns nil always.         *)

CallIds == 1..MaxCalls

\* Amounts are in hundredths.
ValidRequest ==
    [UserID |-> 1, ProductID |-> 1, Quantity |-> 1, Amount |-> 10000,
     OrderNote |-> "test order"]

OtherRequest ==
    [UserID |-> 1, ProductID |-> 1, Quantity |-> 1, Amount |-> 10000,
     OrderNote |-> "other order"]

InvalidRequest ==
    [UserID |-> 0, ProductID |-> 1, Quantity |-> 1, Amount |-> 10000,
     OrderNote |-> ""]

Requests == {ValidRequest, OtherRequest, InvalidRequest}

OrderStatusPending == "pending"

validateOrderRequest(req) ==
    IF req.UserID <= 0 THEN "invalid user id"
    ELSE IF req.ProductID <= 0 THEN "invalid product id"
    ELSE IF req.Quantity <= 0 THEN "invalid quantity"
    ELSE IF req.Amount <= 0 THEN "invalid amount"
    ELSE ErrNone

\* fmt.Sprintf("%d:%d:%d:%.2f:%s", ...) and its MD5 digest in hex; the
\* digest is written as the text it is the digest of.
generateOrderFeature(req) ==
    "md5(" \o ToString(req.UserID) \o ":" \o ToString(req.ProductID) \o ":"
           \o ToString(req.Quantity) \o ":"
           \o ToString(req.Amount \div 100) \o "." \o Pad2(req.Amount % 100)
           \o ":" \o req.OrderNote \o ")"

OrderKey(featureKey) == "order:feature:" \o featureKey

\* The latest clock reading an order was created at.
LastOrderReading ==
    Max({0} \cup {orders[i].CreateTime : i \in 1..Len(orders)})

OrderReadings == LastOrderReading..MaxOrderTime

\* fmt.Sprintf("%d%d", timestamp, random) of two readings of the clock.
generateOrderID(timestamp, now) == ToString(timestamp) \o ToString(now % 1000)

\* The call k is at position p.
CallAt(k, p) == k \in DOMAIN calls /\ calls[k].pc = p

\* The call k returns (orderID, err).
Return(k, orderID, err) ==
    calls' = [calls EXCEPT ![k].pc = "returned", ![k].orderID = orderID,
                           ![k].err = err]

\* CreateOrder up to the return of its SetNX.
CreateOrder(k, req) ==
    /\ k \notin DOMAIN calls
    /\ LET err == validateOrderRequest(req)
           orderKey == OrderKey(generateOrderFeature(req))
           success == orderKey \notin DOMAIN redis
           call(p, e) == [pc |-> p, req |-> req, orderID |-> "", err |-> e]
       IN  IF err # ErrNone
           THEN /\ calls' = Put(calls, k, call("returned", err))
                /\ UNCHANGED redis
           ELSE /\ redis' = IF success THEN Put(redis, orderKey, "") ELSE redis
                /\ calls' = Put(calls, k, call(IF success THEN "create" ELSE "get",
                                              ErrNone))
    /\ UNCHANGED orders
    /\ UNCHANGED <<registryVars, gatewayVars>>

\* The SetNX stored nothing: getExistingOrderID and the return of the id it
\* finds, when that is not empty.
getExistingOrderID(k) ==
    /\ CallAt(k, "get")
    /\ LET orderKey == OrderKey(generateOrderFeature(calls[k].req))
       IN  IF orderKey \notin DOMAIN redis
           THEN Return(k, "", "key not found")
           ELSE IF redis[orderKey] # ""
           THEN Return(k, redis[orderKey], ErrNone)
           ELSE calls' = [calls EXCEPT ![k].pc = "create"]
    /\ UNCHANGED <<redis, orders>>
    /\ UNCHANGED <<registryVars, gatewayVars>>

\* generateOrderID, the Order and saveOrder.
saveOrder(k) ==
    /\ CallAt(k, "create")
    /\ \E timestamp \in OrderReadings :
       \E random \in timestamp..MaxOrderTime :
       \E now \in random..MaxOrderTime :
            LET req == calls[k].req
                orderID == generateOrderID(timestamp, random)
                order == [OrderID |-> orderID, UserID |-> req.UserID,
                          ProductID |-> req.ProductID, Quantity |-> req.Quantity,
                          Amount |-> req.Amount, Status |-> OrderStatusPending,
                          CreateTime |-> now,
                          FeatureKey |-> generateOrderFeature(req),
                          OrderNote |-> req.OrderNote]
            IN  /\ orders' = Append(orders, order)
                /\ calls' = [calls EXCEPT ![k].pc = "set", ![k].orderID = orderID]
    /\ UNCHANGED redis
    /\ UNCHANGED <<registryVars, gatewayVars>>

\* redis.Set of the order id under the key, and the return.
SetOrderID(k) ==
    /\ CallAt(k, "set")
    /\ redis' = Put(redis, OrderKey(generateOrderFeature(calls[k].req)),
                    calls[k].orderID)
    /\ Return(k, calls[k].orderID, ErrNone)
    /\ UNCHANGED orders
    /\ UNCHANGED <<registryVars, gatewayVars>>

NextOrders ==
    \/ \E k \in CallIds, req \in Requests : CreateOrder(k, req)
    \/ \E k \in CallIds : getExistingOrderID(k)
    \/ \E k \in CallIds : saveOrder(k)
    \/ \E k \in CallIds : SetOrderID(k)

SpecOrders == Init /\ [][NextOrders]_vars

(* ------------------------------ claims -------------------------------- *)

Times == 0..MaxTime

Tables == <<users, staffs, groups, sessions>>

\* The connected staff whose session set holds the session id.
Holders(id) == {s \in DOMAIN staffs : id \in staffs[s].Sessions}

IsOpen(id) == sessions[id].Status \in {SessionStatusActive, SessionStatusWaiting}

IsClosed(id) == sessions[id].Status = SessionStatusClosed

\* C1: every Active or Waiting session of the table is in the session set of
\* exactly one connected staff, and that staff is the session's StaffID.
C1_OpenSessionHeldByItsStaff ==
    \A id \in DOMAIN sessions : IsOpen(id) => Holders(id) = {sessions[id].StaffID}

\* C2: every connected user with a non-empty SessionID names a session of the
\* table whose UserID is that user's id.
C2_UserSessionPointsToOwnSession ==
    \A u \in DOMAIN users :
        users[u].SessionID # "" =>
            /\ users[u].SessionID \in DOMAIN sessions
            /\ sessions[users[u].SessionID].UserID = users[u].ID

\* C3: a staff id is in a group's membership set if and only if a staff with
\* that id is in the staff table and its GroupID is that group.
C3_MembershipMatchesStaffTable ==
    \A g \in DOMAIN groups : \A s \in StaffIds :
        s \in groups[g].Members <=> (s \in DOMAIN staffs /\ staffs[s].GroupID = g)

\* C4: the id a successful CreateSession returns (the one it stores in the
\* user's SessionID) differs from the id of every session created before it
\* (all of which are still in the session table).
C4_SessionIdsNeverReused ==
    [][last' = Call("CreateSession", ErrNone) =>
          \A u \in UserIds, s \in StaffIds :
              CreateSession(u, s) => users'[u].SessionID \notin DOMAIN sessions]_vars

\* A successful CreateSession stores a new session under the id.
StoredAnew(id) ==
    /\ last' = Call("CreateSession", ErrNone)
    /\ \E u \in UserIds, s \in StaffIds :
          CreateSession(u, s) /\ users'[u].SessionID = id

\* C5: once a session is Closed no operation changes its StaffID or UserID or
\* puts it into a staff's session set, and a TransferSession that names it
\* does not succeed.
C5_ClosedSessionRoutingFrozen ==
    [][/\ \A id \in DOMAIN sessions :
            (IsClosed(id) /\ ~StoredAnew(id)) =>
                /\ id \in DOMAIN sessions'
                /\ sessions'[id].StaffID = sessions[id].StaffID
                /\ sessions'[id].UserID = sessions[id].UserID
                /\ Holders(id)' \subseteq Holders(id)
       /\ last' = Call("TransferSession", ErrNone) =>
            \A sid \in DOMAIN sessions, ns \in StaffIds :
                TransferSession(sid, ns) => ~IsClosed(sid)]_vars

\* C6: once the session stored under an id is Closed, the session stored
\* under that id is Closed in every later state.
C6_ClosedStaysClosed ==
    [][\A id \in DOMAIN sessions :
          IsClosed(id) => (id \in DOMAIN sessions' /\ sessions'[id].Status = SessionStatusClosed)]_vars

\* C7: DisconnectStaff(s) of a connected staff s leaves every session that was
\* in s's session set Closed, s absent from the staff table and from its
\* group's membership set, and the Status and SessionID of every user party to
\* one of those sessions as they were.
C7_DisconnectStaffCascade ==
    [][last'.op = "DisconnectStaff" =>
        \A s \in StaffIds :
          (s \in DOMAIN staffs /\ DisconnectStaff(s)) =>
              /\ \A id \in staffs[s].Sessions :
                    /\ id \in DOMAIN sessions'
                    /\ sessions'[id].Status = SessionStatusClosed
                    /\ LET u == sessions[id].UserID
                       IN  u \in DOMAIN users =>
                               /\ u \in DOMAIN users'
                               /\ users'[u].Status = users[u].Status
                               /\ users'[u].SessionID = users[u].SessionID
              /\ s \notin DOMAIN staffs'
              /\ s \notin groups'[staffs[s].GroupID].Members]_vars

\* C7 witness: a staff disconnect has just closed a session whose user is
\* still connected, in session and pointing at it.
C7_Witness ==
    /\ last = Call("DisconnectStaff", ErrNone)
    /\ \E id \in DOMAIN sessions, u \in DOMAIN users :
          /\ IsClosed(id)
          /\ sessions[id].StaffID \notin DOMAIN staffs
          /\ sessions[id].UserID = u
          /\ users[u].SessionID = id
          /\ users[u].Status = UserStatusInSession

\* The staff whose session set loses, and gains, the session id in a step.
Losers(id) == {s \in DOMAIN staffs : id \in staffs[s].Sessions
                                     /\ (s \notin DOMAIN staffs' \/ id \notin staffs'[s].Sessions)}

Gainers(id) == {s \in DOMAIN staffs' : id \in staffs'[s].Sessions
                                      /\ (s \notin DOMAIN staffs \/ id \notin staffs[s].Sessions)}

\* C8 as stated: a successful TransferSession takes the session id out of
\* exactly one staff's set and puts it into exactly one other staff's set,
\* leaves StaffID equal to the new staff and UpdateAt strictly greater.
C8_TransferMovesAndStampsStrictly ==
    [][last' = Call("TransferSession", ErrNone) =>
        \A sid \in DOMAIN sessions, ns \in StaffIds :
          TransferSession(sid, ns) =>
              /\ Cardinality(Losers(sid)) = 1
              /\ Cardinality(Gainers(sid)) = 1
              /\ Losers(sid) # Gainers(sid)
              /\ sessions'[sid].StaffID = ns
              /\ sessions'[sid].UpdateAt > sessions[sid].UpdateAt]_vars

\* C8 amended: a successful TransferSession leaves StaffID equal to the new
\* staff and the session id in the new staff's set; when the outgoing staff
\* is another staff the id is not in the outgoing staff's set; no other
\* staff's set changes; UpdateAt is not less than it was.
C8_TransferReassigns ==
    [][last' = Call("TransferSession", ErrNone) =>
        \A sid \in DOMAIN sessions, ns \in StaffIds :
          TransferSession(sid, ns) =>
              LET old == sessions[sid].StaffID
              IN  /\ sessions'[sid].StaffID = ns
                  /\ sid \in staffs'[ns].Sessions
                  /\ old # ns => sid \notin staffs'[old].Sessions
                  /\ DOMAIN staffs' = DOMAIN staffs
                  /\ \A s \in DOMAIN staffs \ {old, ns} : staffs'[s] = staffs[s]
                  /\ sessions'[sid].UpdateAt >= sessions[sid].UpdateAt]_vars

\* C8 witness: a transfer has just succeeded and a session is held by, and
\* assigned to, a staff other than the one it was created with.
C8_Witness ==
    /\ last = Call("TransferSession", ErrNone)
    /\ \E id \in DOMAIN sessions :
          LET s == sessions[id].StaffID
          IN  /\ s \in DOMAIN staffs
              /\ id \in staffs[s].Sessions
              /\ \A t \in Times : id # SessionIDOf(sessions[id].UserID, s, t)

\* C9: TransferSession fails with SessionNotFound when the session id is not
\* in the table, with StaffNotFound when the new staff or the session's
\* current staff is not connected, and a failed call changes no table.
C9_TransferFailures ==
    [][last'.op = "TransferSession" =>
        \A sid \in SessionArgs, ns \in StaffIds :
          TransferSession(sid, ns) =>
              /\ sid \notin DOMAIN sessions => last'.err = ErrSessionNotFound
              /\ (sid \in DOMAIN sessions
                    /\ (ns \notin DOMAIN staffs
                          \/ sessions[sid].StaffID \notin DOMAIN staffs))
                   => last'.err = ErrStaffNotFound
              /\ last'.err # ErrNone => UNCHANGED Tables]_vars

\* C9 witness: a transfer has just failed with StaffNotFound while a staff is
\* connected and the only session's own staff is not.
C9_Witness ==
    /\ last = Call("TransferSession", ErrStaffNotFound)
    /\ DOMAIN staffs # {}
    /\ DOMAIN sessions # {}
    /\ \A id \in DOMAIN sessions : sessions[id].StaffID \notin DOMAIN staffs

\* C10: SendMessage on a session of the table from an id that is neither its
\* UserID nor its StaffID fails with InvalidOperation and leaves the message
\* sequence and UpdateAt as they were; on an id that is not in the table it
\* fails with SessionNotFound and changes no table.
C10_SendMessageFailures ==
    [][last'.op = "SendMessage" =>
        \A sid \in SessionArgs, f \in SenderArgs, c \in Contents :
          SendMessage(sid, f, c, MessageTypeText) =>
              /\ sid \notin DOMAIN sessions =>
                    (last'.err = ErrSessionNotFound /\ UNCHANGED Tables)
              /\ (sid \in DOMAIN sessions /\ f # sessions[sid].UserID
                                          /\ f # sessions[sid].StaffID) =>
                    /\ last'.err = ErrInvalidOperation
                    /\ sessions'[sid].Messages = sessions[sid].Messages
                    /\ sessions'[sid].UpdateAt = sessions[sid].UpdateAt]_vars

\* C10 witness: a SendMessage has just failed with InvalidOperation on a
\* session that already holds a message.
C10_Witness ==
    /\ last = Call("SendMessage", ErrInvalidOperation)
    /\ \A id \in DOMAIN sessions : Len(sessions[id].Messages) > 0

\* C11: every successful SendMessage(sid, from, ...) puts one message at the
\* end of the session's sequence, with the earlier messages before it as they
\* were; the message is from the sender and its ToID is the session's StaffID
\* when the sender is the session's UserID and the session's UserID when the
\* sender is the session's StaffID, both read before the call.
C11_SendMessageAppendsToOtherParty ==
    [][last' = Call("SendMessage", ErrNone) =>
        \A sid \in DOMAIN sessions, f \in SenderArgs, c \in Contents :
          SendMessage(sid, f, c, MessageTypeText) =>
              LET old == sessions[sid].Messages
                  new == sessions'[sid].Messages
                  msg == new[Len(new)]
              IN  /\ Len(new) = Len(old) + 1
                  /\ SubSeq(new, 1, Len(old)) = old
                  /\ msg.FromID = f
                  /\ msg.Content = c
                  /\ msg.SessionID = sid
                  /\ f = sessions[sid].UserID => msg.ToID = sessions[sid].StaffID
                  /\ f = sessions[sid].StaffID => msg.ToID = sessions[sid].UserID]_vars

\* C11 witness: a SendMessage has just succeeded on a session that was
\* transferred in between: its first message went from the user to one staff
\* and its last one from another staff to the user.
C11_Witness ==
    /\ last = Call("SendMessage", ErrNone)
    /\ \E id \in DOMAIN sessions :
          LET m == sessions[id].Messages
          IN  /\ Len(m) >= 2
              /\ m[1].FromID = sessions[id].UserID
              /\ m[1].ToID # sessions[id].StaffID
              /\ m[Len(m)].FromID = sessions[id].StaffID
              /\ m[Len(m)].ToID = sessions[id].UserID

\* The successful SendMessage calls of a step add exactly one message to the
\* session named, after the ones it held, and none to any other session.
OneMoreMessage(sid) ==
    /\ DOMAIN sessions' = DOMAIN sessions
    /\ Len(sessions'[sid].Messages) = Len(sessions[sid].Messages) + 1
    /\ SubSeq(sessions'[sid].Messages, 1, Len(sessions[sid].Messages))
           = sessions[sid].Messages
    /\ \A id \in DOMAIN sessions \ {sid} : sessions'[id] = sessions[id]

\* C12 as stated: SendMessage calls on one session commit one after another,
\* each adding exactly one message after those committed before it (N calls
\* leave N messages in the order of the commits), and each leaving UpdateAt
\* strictly greater than the commit before it left it.
C12_SerialAppendsStrictlyStamped ==
    [][last' = Call("SendMessage", ErrNone) =>
        \A sid \in DOMAIN sessions, f \in SenderArgs, c \in Contents :
          SendMessage(sid, f, c, MessageTypeText) =>
              /\ OneMoreMessage(sid)
              /\ sessions'[sid].UpdateAt > sessions[sid].UpdateAt]_vars

\* C12 amended: as above, with UpdateAt not less than the commit before it
\* left it.
C12_SerialAppends ==
    [][last' = Call("SendMessage", ErrNone) =>
        \A sid \in DOMAIN sessions, f \in SenderArgs, c \in Contents :
          SendMessage(sid, f, c, MessageTypeText) =>
              /\ OneMoreMessage(sid)
              /\ sessions'[sid].UpdateAt >= sessions[sid].UpdateAt]_vars

\* C12 witness: MaxChatMsgs SendMessage calls have committed on one session,
\* from both of its parties, the last two within the same second.
C12_Witness ==
    /\ last = Call("SendMessage", ErrNone)
    /\ \E id \in DOMAIN sessions :
          LET m == sessions[id].Messages
          IN  /\ Len(m) = MaxChatMsgs
              /\ \E i, j \in 1..Len(m) : m[i].FromID # m[j].FromID
              /\ m[Len(m)].ID = m[Len(m) - 1].ID

\* C20: every successful CreateSession(u, s) leaves in the session table,
\* under the id it stores in user u's SessionID, a session that is Active with
\* UserID u, StaffID s and no message; that id is in s's session set and u's
\* status is InSession; every session the table held before the call, every
\* other user and every other staff is as it was.
C20_CreateSessionEffect ==
    [][last' = Call("CreateSession", ErrNone) =>
        \A u \in UserIds, s \in StaffIds :
          CreateSession(u, s) =>
              LET id == users'[u].SessionID
              IN  /\ id \in DOMAIN sessions'
                  /\ sessions'[id].ID = id
                  /\ sessions'[id].Status = SessionStatusActive
                  /\ sessions'[id].UserID = u
                  /\ sessions'[id].StaffID = s
                  /\ sessions'[id].Messages = <<>>
                  /\ staffs'[s].Sessions = staffs[s].Sessions \cup {id}
                  /\ users'[u].Status = UserStatusInSession
                  /\ DOMAIN users' = DOMAIN users
                  /\ \A x \in DOMAIN users \ {u} : users'[x] = users[x]
                  /\ DOMAIN staffs' = DOMAIN staffs
                  /\ \A x \in DOMAIN staffs \ {s} : staffs'[x] = staffs[x]
                  /\ \A x \in DOMAIN sessions :
                        x \in DOMAIN sessions' /\ sessions'[x] = sessions[x]]_vars

\* The messages of session sid delivered to connection k, in the order of
\* their delivery.
MessagesDelivered(k, sid) ==
    LET IsMessageOf(f) == f.type = "message" /\ f.payload.SessionID = sid
        frames == SelectSeq(sinks[k], IsMessageOf)
    IN  [i \in 1..Len(frames) |-> frames[i].payload]

\* The elements of a are among those of b, in the same order.
RECURSIVE IsSubsequence(_, _)
IsSubsequence(a, b) ==
    IF a = <<>> THEN TRUE
    ELSE IF b = <<>> THEN FALSE
    ELSE IF Head(a) = Head(b) THEN IsSubsequence(Tail(a), Tail(b))
    ELSE IsSubsequence(a, Tail(b))

\* C13: the messages of one session delivered to a connection are delivered
\* in the order in which their SendMessage calls committed, which is their
\* order in the session's message sequence.
C13_DeliveryOrderIsCommitOrder ==
    \A k \in DOMAIN sinks, sid \in DOMAIN sessions :
        IsSubsequence(MessagesDelivered(k, sid), sessions[sid].Messages)

\* The handlers that are inside a WriteMessage on connection k.
Writers(k) == {c \in DOMAIN pc : pc[c] = "writing" /\ local[c].conn = k}

\* C14: at any time at most one handler is inside a WriteMessage on a given
\* connection.
C14_OneWriterPerSink ==
    \A k \in DOMAIN sinks : Cardinality(Writers(k)) <= 1

\* The lookups a handler has still to make for the frames it has to write.
Addressees(c) == {local'[c].todo[i].to : i \in 1..Len(local'[c].todo)}

\* C15: after a transfer_session frame whose TransferSession succeeded, the
\* handler has a session_transferred notification to write to the session's
\* user, to the staff that held the session before the call and to the new
\* staff, whichever staff's connection sent the frame.
C15_TransferNotifiesUserOldAndNewStaff ==
    [][\A c \in StaffConns, sid \in DOMAIN sessions, ns \in StaffIds :
          (StaffTransferSession(c, sid, ns) /\ last'.err = ErrNone) =>
              /\ ToUserOf(sid) \in Addressees(c)
              /\ ToStaff(sessions[sid].StaffID) \in Addressees(c)
              /\ ToStaff(ns) \in Addressees(c)
              /\ \A i \in 1..Len(local'[c].todo) :
                    local'[c].todo[i].frame.type = "session_transferred"]_vars

\* The connection of the party a pending write is addressed to, as the tables
\* give it now; NoConn when the party is not connected.
PartyConn(to) ==
    LET id == CASE to.kind = "user of" -> sessions[to.id].UserID
                [] to.kind = "staff of" -> sessions[to.id].StaffID
                [] OTHER -> to.id
    IN  IF to.kind \in {"user", "user of"}
        THEN IF id \in DOMAIN users THEN users[id].Conn ELSE NoConn
        ELSE IF id \in DOMAIN staffs THEN staffs[id].Conn ELSE NoConn

\* The handler of c writes the first of its pending frames to the connection
\* of the party it is addressed to, when that party is connected and its
\* connection open, and goes on to the next one.
WritesHead(c) ==
    LET h == Head(local[c].todo)
    IN  /\ (At(c, "out") /\ StartWrite(c)) =>
              IF PartyConn(h.to) # NoConn /\ PartyConn(h.to) \notin closed
              THEN /\ pc'[c] = "writing"
                   /\ local'[c].conn = PartyConn(h.to)
                   /\ local'[c].todo = local[c].todo
              ELSE local'[c].todo = Tail(local[c].todo)
        /\ (At(c, "writing") /\ WriteMessage(c)) =>
              /\ local[c].conn \notin closed =>
                    sinks'[local[c].conn] = Append(sinks[local[c].conn], h.frame)
              /\ \A k \in DOMAIN sinks \ {local[c].conn} : sinks'[k] = sinks[k]
              /\ local'[c].todo = Tail(local[c].todo)

\* C16: after a connect_user frame whose CreateSession succeeded, the handler
\* writes a session_created notification of the new session to the connection
\* of the session's user and then to that of the session's staff, each when
\* it is connected at its write; after one whose CreateSession failed it has
\* nothing to write and no sink has changed.
C16_SessionCreatedNotifiesBoth ==
    [][\A c \in StaffConns \cap DOMAIN pc :
          /\ \A u \in UserArgs :
                StaffConnectUser(c, u) =>
                    IF last'.err = ErrNone
                    THEN LET sid == users'[u].SessionID
                             todo == local'[c].todo
                         IN  /\ Len(todo) = 2
                             /\ todo[1].to = ToUserOf(sid)
                             /\ todo[2].to = ToStaffOf(sid)
                             /\ \A i \in 1..2 :
                                   /\ todo[i].frame.type = "session_created"
                                   /\ todo[i].frame.payload.ID = sid
                             /\ sessions'[sid].UserID = u
                             /\ sessions'[sid].StaffID = IdOf(c)
                    ELSE /\ local'[c].todo = <<>>
                         /\ sinks' = sinks
          /\ (local[c].todo # <<>>
                /\ Head(local[c].todo).frame.type = "session_created") =>
                    WritesHead(c)]_vars

\* C16 witness: the user's and the staff's connection have both received the
\* session_created notification of a session of the table.
C16_Witness ==
    \E sid \in DOMAIN sessions, u \in DOMAIN users, s \in DOMAIN staffs :
        LET Created(f) == f.type = "session_created" /\ f.payload.ID = sid
        IN  /\ sessions[sid].UserID = u
            /\ sessions[sid].StaffID = s
            /\ SelectSeq(sinks[users[u].Conn], Created) # <<>>
            /\ SelectSeq(sinks[staffs[s].Conn], Created) # <<>>

\* C17: the SendMessage call of a user's message frame names the session id
\* the registry records for that user, which is not empty; when it succeeds
\* the handler has the message to write to the staff that is its ToID and to
\* nobody else, and writes it when that staff is connected.
C17_UserFrameUsesRecordedSession ==
    [][\A c \in UserConns \cap DOMAIN pc :
          /\ (At(c, "send") /\ UserSendMessage(c, c)) =>
                /\ IdOf(c) \in DOMAIN users
                /\ users[IdOf(c)].SessionID = local[c].sid
                /\ local[c].sid # ""
                /\ last'.err = ErrNone =>
                      LET m == sessions'[local[c].sid].Messages
                      IN  local'[c].todo =
                              <<[to |-> ToStaff(m[Len(m)].ToID),
                                 frame |-> MessageFrame(m[Len(m)])]>>
          /\ (local[c].todo # <<>>
                /\ Head(local[c].todo).frame.type = "message") =>
                    WritesHead(c)]_vars

\* The handler of c has taken a frame that does not decode, or one whose
\* registry call failed.
FrameFails(c) ==
    \/ \E frame \in BadFrames : ReadBadFrame(c, frame)
    \/ /\ last'.err # ErrNone
       /\ \/ At(c, "send") /\ UserSendMessage(c, c)
          \/ \E u \in UserArgs : StaffConnectUser(c, u)
          \/ \E sid \in SessionArgs, s \in StaffIds : StaffTransferSession(c, sid, s)
          \/ \E sid \in SessionArgs : StaffMessage(c, sid, c)

\* C18: a frame that does not decode, or whose registry call fails, changes
\* no table and no sink, leaves its handler nothing to write and at the read
\* of its loop; a handler's loop ends only where its read fails.
C18_FailedFrameIsDropped ==
    [][\A c \in DOMAIN pc :
          /\ FrameFails(c) =>
                /\ UNCHANGED Tables
                /\ sinks' = sinks
                /\ local'[c].todo = <<>>
                /\ pc'[c] = "read"
          /\ (pc[c] # "ended" /\ pc'[c] = "ended") =>
                /\ pc[c] = "read"
                /\ UNCHANGED <<Tables, sinks, local>>]_vars

\* C18 witness: a staff's transfer_session frame has failed with
\* StaffNotFound and its handler is back at the read of its loop.
C18_Witness ==
    /\ last = Call("TransferSession", ErrStaffNotFound)
    /\ DOMAIN sessions # {}
    /\ \E c \in StaffConns \cap DOMAIN pc : pc[c] = "read" /\ local[c].left = 0

\* The handler of c has been through its loop: it was registered.
Registered(c) == c \in DOMAIN pc /\ pc[c] # "refused"

\* C19: the Disconnect of a registered connection has been invoked once when
\* its handler has returned and not at all before; it is invoked after the
\* loop has ended.
C19_DisconnectExactlyOnce ==
    /\ [](\A c \in Conns :
            Registered(c) => disconnects[c] = IF pc[c] = "done" THEN 1 ELSE 0)
    /\ \A c \in Conns :
          (c \in DOMAIN pc /\ pc[c] = "ended")
              ~> (c \in DOMAIN pc /\ pc[c] = "done" /\ disconnects[c] = 1)

\* C19 witness: one handler has returned after its Disconnect while the loop
\* of another is running and a third was refused.
C19_Witness ==
    \E a, b, c \in DOMAIN pc :
        /\ pc[a] = "done" /\ disconnects[a] = 1
        /\ pc[b] = "read" /\ disconnects[b] = 0
        /\ pc[c] = "refused" /\ disconnects[c] = 0

\* C21: CreateSession(u, s) fails with UserNotFound when u is not in the user
\* table, whether s is in the staff table or not, and with StaffNotFound when
\* u is in the user table and s is not in the staff table; a failed call
\* changes no table.
C21_CreateSessionFailures ==
    [][last'.op = "CreateSession" =>
        \A u \in UserIds, s \in StaffIds :
          CreateSession(u, s) =>
              /\ u \notin DOMAIN users => last'.err = ErrUserNotFound
              /\ (u \in DOMAIN users /\ s \notin DOMAIN staffs) =>
                    last'.err = ErrStaffNotFound
              /\ (u \in DOMAIN users /\ s \in DOMAIN staffs) => last'.err = ErrNone
              /\ last'.err # ErrNone => UNCHANGED Tables]_vars

\* C21 witness: a CreateSession has just failed with UserNotFound while
\* neither a user nor a staff is connected.
C21_Witness ==
    /\ last = Call("CreateSession", ErrUserNotFound)
    /\ users = EmptyMap
    /\ staffs = EmptyMap
    /\ groups # EmptyMap

\* C22: ConnectStaff(id, name, g, sink) fails with GroupNotFound and changes
\* no table when g is not in the group table; when g is in it the call
\* succeeds and leaves the staff in the staff table and in g's membership
\* set, Online and with an empty session set.
C22_ConnectStaffEffect ==
    [][last'.op = "ConnectStaff" =>
        \A s \in StaffIds, g \in GroupIds :
          ConnectStaff(s, g, NoConn) =>
              IF g \notin DOMAIN groups
              THEN /\ last'.err = ErrGroupNotFound
                   /\ UNCHANGED Tables
              ELSE /\ last'.err = ErrNone
                   /\ s \in DOMAIN staffs'
                   /\ s \in groups'[g].Members
                   /\ staffs'[s].GroupID = g
                   /\ staffs'[s].Status = UserStatusOnline
                   /\ staffs'[s].Sessions = {}]_vars

\* C22 witness: a ConnectStaff has just succeeded for a staff id to which an
\* open session of the table is assigned.
C22_Witness ==
    /\ last = Call("ConnectStaff", ErrNone)
    /\ \E id \in DOMAIN sessions :
          /\ IsOpen(id)
          /\ sessions[id].StaffID \in DOMAIN staffs
          /\ staffs[sessions[id].StaffID].Sessions = {}

\* C23: DisconnectUser(u) of a connected user u leaves u absent from the user
\* table and its connection closed, and every session as it was: the session
\* u was party to keeps its Status, StaffID, UserID and Messages, its place
\* in the session table and its place in its staff's session set.
C23_DisconnectUserLeavesSessions ==
    [][last'.op = "DisconnectUser" =>
        \A u \in UserIds :
          (u \in DOMAIN users /\ DisconnectUser(u)) =>
              /\ u \notin DOMAIN users'
              /\ users[u].Conn # NoConn => users[u].Conn \in closed'
              /\ sessions' = sessions
              /\ staffs' = staffs
              /\ groups' = groups]_vars

\* C23 witness: a user whose handler served it has just been disconnected,
\* its connection is closed, and the session it was party to is open and in
\* its staff's session set.
C23_Witness ==
    /\ last = Call("DisconnectUser", ErrNone)
    /\ \E c \in UserConns \cap closed :
          /\ IdOf(c) \notin DOMAIN users
          /\ \E id \in DOMAIN sessions :
                /\ sessions[id].UserID = IdOf(c)
                /\ IsOpen(id)
                /\ Holders(id) = {sessions[id].StaffID}

\* C24: DisconnectUser and DisconnectStaff of an id that is not in the table
\* of its kind return no error and change no table, so no session's Status
\* changes.
C24_DisconnectUnknownIsNoOp ==
    [][/\ \A u \in UserIds :
            (u \notin DOMAIN users /\ DisconnectUser(u)) =>
                (last'.err = ErrNone /\ UNCHANGED Tables)
       /\ \A s \in StaffIds :
            (s \notin DOMAIN staffs /\ DisconnectStaff(s)) =>
                (last'.err = ErrNone /\ UNCHANGED Tables)]_vars

\* C24 witness: a DisconnectStaff has just returned while no group, and so no
\* staff, has ever been in the registry, and a user is connected.
C24_Witness ==
    /\ last = Call("DisconnectStaff", ErrNone)
    /\ groups = EmptyMap
    /\ staffs = EmptyMap
    /\ users # EmptyMap

\* The registrations and connections of other handlers than that of c.
OthersKept(c) ==
    /\ \A u \in DOMAIN users :
          users[u].Conn # c => (u \in DOMAIN users' /\ users'[u] = users[u])
    /\ \A s \in DOMAIN staffs :
          staffs[s].Conn # c => (s \in DOMAIN staffs' /\ staffs'[s] = staffs[s])
    /\ closed' \subseteq closed \cup {c}

\* C25: the Disconnect that the end of a connection's handler triggers
\* removes no registry entry that another connection made, closes no other
\* connection, and changes no session while the ended connection's own
\* entry is no longer the one in the table.
C25_CleanupRemovesOwnRegistrationOnly ==
    [][\A c \in DOMAIN pc :
          (At(c, "ended") /\ (DeferDisconnectUser(c) \/ DeferDisconnectStaff(c))) =>
              /\ OthersKept(c)
              /\ (c \in StaffConns /\ IdOf(c) \in DOMAIN staffs
                                   /\ staffs[IdOf(c)].Conn # c) =>
                    sessions' = sessions]_vars

\* C26: for every staff of the staff table, every session id of its session
\* set is the id of a session of the table whose StaffID is that staff.
C26_StaffSetHoldsOwnSessions ==
    \A s \in DOMAIN staffs :
        \A id \in staffs[s].Sessions :
            id \in DOMAIN sessions /\ sessions[id].StaffID = s

\* C27: a SendMessage that names a Closed session does not succeed and
\* leaves the session's message sequence and UpdateAt as they were.
C27_NoAppendToClosedSession ==
    [][last'.op = "SendMessage" =>
        \A sid \in DOMAIN sessions, f \in SenderArgs, c \in Contents :
          (IsClosed(sid) /\ SendMessage(sid, f, c, MessageTypeText)) =>
              /\ last'.err # ErrNone
              /\ sessions'[sid].Messages = sessions[sid].Messages
              /\ sessions'[sid].UpdateAt = sessions[sid].UpdateAt]_vars

\* The Active sessions of the table whose UserID is the user id.
ActiveSessionsOf(u) ==
    {id \in DOMAIN sessions : sessions[id].UserID = u
                              /\ sessions[id].Status = SessionStatusActive}

\* C28: for every user id, at most one session of the table is Active with
\* that id as its UserID.
C28_OneActiveSessionPerUser ==
    \A u \in UserIds : Cardinality(ActiveSessionsOf(u)) <= 1

\* The saved orders whose feature is that of the request.
SavedFor(req) ==
    {i \in 1..Len(orders) : orders[i].FeatureKey = generateOrderFeature(req)}

\* The calls made with the request that have returned without an error.
ReturnedFor(req) ==
    {k \in DOMAIN calls : calls[k].req = req /\ calls[k].pc = "returned"
                          /\ calls[k].err = ErrNone}

\* C29: for every valid request, at most one order with its feature is
\* saved, and the CreateOrder calls made with it that have returned without
\* an error have all returned the same order id, which is not empty.
C29_CreateOrderIdempotent ==
    \A req \in Requests :
        validateOrderRequest(req) = ErrNone =>
            /\ Cardinality(SavedFor(req)) <= 1
            /\ \A a, b \in ReturnedFor(req) :
                  calls[a].orderID # "" /\ calls[a].orderID = calls[b].orderID

====
